---------------------------- MODULE Spec2Model ----------------------------
(***************************************************************************)
(* Model of src/src/j_dataprep/landcover.py.                               *)
(*                                                                         *)
(* LandCover: the raster compositing of terrain, road, water and building  *)
(* features (convert_to_raster) and the later updates of the raster.       *)
(* A numpy array is an object on `heap`; the attributes array and          *)
(* og_landcover are references to heap objects, so that an in-place write  *)
(* is seen through every reference to the written object.                  *)
(* A geometry is modelled by the set of grid cells whose centre it covers  *)
(* (what rasterio.features.geometry_mask computes for it); the grid is     *)
(* flattened row-major, convert_to_raster never looks at neighbours.       *)
(***************************************************************************)
EXTENDS Integers, Sequences, FiniteSets, TLC

\* ------------------------------------------------------------------ bounds
\* Number of cells of the DTM grid.
LcCells == 2
\* Total number of features the four collections hold at construction.
MaxFeatures == 2
\* Number of geometries in one update_build_landcover call.
MaxNewBuildings == 1
\* Rows and columns of the arrays given to insert_user_buildings.
Rows == 2
Cols == 3
\* Number of insert_user_buildings calls in one run.
MaxInserts == 1

\* --------------------------------------------------------------- constants
\* the features on one page (the limit parameter of the request)
limit == 1
\* the status of a served page
OK == 200

NODATA == -9999
WATER == 7
BUILDING == 2
\* dict.get(..., -1): the lookup miss
MISS == -1

VARIABLES
    \* LandCover: what the constructor is given and what the services return
    dtm,              \* band 1 of the DTM dataset, as read
    main_roadtype,    \* constructor argument
    terrein_vlak,     \* features of the collection terrein_vlak
    wegdeel_vlak,     \* features of the collection wegdeel_vlak
    waterdeel_vlak,   \* features of the collection waterdeel_vlak
    building_data,    \* constructor argument
    status_code,      \* per collection, the status of its successive page requests
    \* LandCover: the object
    constructed,
    main_road,
    terrains, roads, water, buildings,
    water_mask, building_mask,
    heap, array, og_landcover,
    landcover_withoutbuild,
    last_op,          \* the method of LandCover that returned last
    init_raised       \* an exception left LandCover.__init__

lcvars == <<dtm, main_roadtype, terrein_vlak, wegdeel_vlak, waterdeel_vlak,
            building_data, constructed, main_road, terrains, roads, water,
            buildings, water_mask, building_mask, heap, array, og_landcover,
            landcover_withoutbuild, last_op, status_code, init_raised>>

VARIABLES
    \* Buildings.insert_user_buildings: the arguments of the last call
    highest_array, footprint_array,
    \* Buildings: the object
    building_geometries,
    removed_buildings, removed_user_buildings,
    user_buildings, user_buildings_higher,
    is3D,
    \* insert_user_buildings: its locals, as the last call left them
    extracted_highest,    \* highest_buildings, as the comprehension built it
    extracted_footprint,  \* footprint_buildings, before the matching loop
    possible_matches,     \* per footprint blob, the list the index returned
    inserts,              \* number of insert_user_buildings calls so far
    value_error,          \* the last call of Buildings raised ValueError
    calls                 \* per list and identifier: the remove calls and
                          \* the retrieve calls that returned, so far

bvars == <<highest_array, footprint_array, building_geometries,
           removed_buildings, removed_user_buildings, user_buildings,
           user_buildings_higher, is3D, extracted_highest,
           extracted_footprint, possible_matches, inserts, value_error,
           calls>>

vars == <<lcvars, bvars>>

\* ------------------------------------------------------------ small helpers
Cells == 1..LcCells
Geoms == (SUBSET Cells) \ {{}}
\* Python's None for an attribute that holds an array or a mask
None == <<>>

SeqsOfLen(S, n) == [1..n -> S]

RECURSIVE RemoveAt(_, _)
RemoveAt(s, i) ==
    IF i = 1 THEN Tail(s) ELSE <<Head(s)>> \o RemoveAt(Tail(s), i - 1)

\* ------------------------------------------------- the land-cover code table
\* landcover.json, with the entries the docstring of load_landcover_mapping shows
landcover_mapping ==
    [terrain |-> [k \in {"grasland", "akker"} |->
                     IF k = "grasland" THEN 5 ELSE 6],
     road    |-> [k \in {"onverhard", "halfverhard"} |->
                     IF k = "onverhard" THEN 3 ELSE 4]]

\* str.lower() on the attribute values the collections carry
lower(s) ==
    CASE s = "Akker" -> "akker"
      [] s = "Onverhard" -> "onverhard"
      [] OTHER -> s

\* dict.get(key, default)
dict_get(d, key, default) == IF key \in DOMAIN d THEN d[key] ELSE default

TerrainTypes == {"grasland", "Akker", "overig"}
RoadTypes == {"verhard", "Onverhard", "onbekend"}

\* the lookup miss stored as a code
new_properties_keeps_miss(landuse_value) ==
    [k \in {"landuse"} |-> landuse_value]

\* {"landuse": v} if v != -1 else {}
new_properties(landuse_value) ==
    IF landuse_value # MISS THEN [k \in {"landuse"} |-> landuse_value]
    ELSE [k \in {} |-> 0]

terrain_landuse(ter) ==
    dict_get(landcover_mapping.terrain, lower(ter.typelandgebruik), MISS)

process_terrain_features(terreindata) ==
    [i \in 1..Len(terreindata) |->
        [geometry |-> terreindata[i].geometry,
         properties |-> new_properties(terrain_landuse(terreindata[i]))]]

road_landuse(road, mainroad) ==
    IF lower(road.verhardingstype) = "verhard" THEN mainroad
    ELSE dict_get(landcover_mapping.road, lower(road.verhardingstype), MISS)

process_road_features(wegdata, mainroad) ==
    [i \in 1..Len(wegdata) |->
        [geometry |-> wegdata[i].geometry,
         properties |-> new_properties(road_landuse(wegdata[i], mainroad))]]

\* the features are polygons; those with hoogteniveau -1 are left out
process_water_features(waterdata) ==
    SelectSeq(waterdata, LAMBDA wat : wat.hoogteniveau # -1)

load_buildings(bdata) == bdata

\* ------------------------------------------------------ the paged collection
Collections == {"terrein_vlak", "wegdeel_vlak", "waterdeel_vlak"}
StatusCodes == {OK, 500}
\* no collection holds more than MaxFeatures features, and a page holds one
\* at least: MaxFeatures requests reach the last page
Requests == 1..MaxFeatures
all_ok == [c \in Collections |-> [k \in Requests |-> OK]]

\* the while loop of get_top10nl: `rest` is what the service has still to
\* serve, k the number of the request, features the list gathered so far
RECURSIVE fetch_pages(_, _, _, _)
fetch_pages(rest, statuses, k, features) ==
    IF statuses[k] # OK THEN features
    ELSE LET n == IF Len(rest) < limit THEN Len(rest) ELSE limit
             page == SubSeq(rest, 1, n)
             next_link == SubSeq(rest, n + 1, Len(rest))
         IN IF next_link = <<>> THEN features \o page
            ELSE fetch_pages(next_link, statuses, k + 1, features \o page)

get_top10nl(collection, statuses) ==
    [features |-> fetch_pages(collection, statuses, 1, <<>>)]

\* a geometry dictionary shapely cannot build a geometry from
MALFORMED == {0}
\* shape(geometry) raises
shape_raises(geometry) == geometry = MALFORMED
any_shape_raises(feats) ==
    \E i \in 1..Len(feats) : shape_raises(feats[i].geometry)

\* ------------------------------------------------------------- rasterising
\* geometry_mask(geoms, invert=False): True where NO geometry covers the cell
geometry_mask(geoms) == [c \in Cells |-> ~ \E g \in geoms : c \in g]

\* np.where(mask, a, value): a new array
np_where(mask, a, value) == [c \in Cells |-> IF mask[c] THEN a[c] ELSE value]

\* the band left as read
fill_nodata_skipped(a) == a

\* array.fill(-9999)
fill_nodata(a) == [c \in Cells |-> NODATA]

\* one pass of the loop over self.terrains / self.roads
rasterize_feature(a, f) ==
    IF "landuse" \in DOMAIN f.properties
    THEN np_where(geometry_mask({f.geometry}), a, f.properties["landuse"])
    ELSE a

\* the features taken last to first, so that the earlier-listed one wins
RECURSIVE rasterize_features_reversed(_, _)
rasterize_features_reversed(a, feats) ==
    IF feats = <<>> THEN a
    ELSE rasterize_feature(rasterize_features_reversed(a, Tail(feats)),
                           Head(feats))

RECURSIVE rasterize_features(_, _)
rasterize_features(a, feats) ==
    IF feats = <<>> THEN a
    ELSE rasterize_features(rasterize_feature(a, Head(feats)), Tail(feats))

GeomsOf(feats) == {feats[i].geometry : i \in 1..Len(feats)}

rasterize_water(a, wat) ==
    IF wat = <<>> THEN a ELSE np_where(geometry_mask(GeomsOf(wat)), a, WATER)

rasterize_buildings(a, blds) ==
    IF blds = <<>> THEN a ELSE np_where(geometry_mask(GeomsOf(blds)), a, BUILDING)

\* the building layer rasterised before the water layer
convert_to_raster_building_first(band, ters, rds, wat, blds) ==
    LET a0 == fill_nodata(band)
        a1 == rasterize_features(a0, ters)
        a2 == rasterize_features(a1, rds)
        a3 == rasterize_buildings(a2, blds)
        a4 == rasterize_water(a3, wat)
    IN [array |-> a4,
        landcover_withoutbuild |-> a2,
        water_mask |-> IF wat = <<>> THEN None ELSE geometry_mask(GeomsOf(wat)),
        building_mask |-> IF blds = <<>> THEN None ELSE geometry_mask(GeomsOf(blds))]

\* convert_to_raster: the returned array and the attributes it sets
convert_to_raster(band, ters, rds, wat, blds) ==
    LET a0 == fill_nodata(band)
        a1 == rasterize_features(a0, ters)
        a2 == rasterize_features(a1, rds)
        a3 == rasterize_water(a2, wat)
        a4 == rasterize_buildings(a3, blds)
    IN [array |-> a4,
        landcover_withoutbuild |-> a3,
        water_mask |-> IF wat = <<>> THEN None ELSE geometry_mask(GeomsOf(wat)),
        building_mask |-> IF blds = <<>> THEN None ELSE geometry_mask(GeomsOf(blds))]

\* ================================================================ Buildings
\* The arrays are flattened row-major: cell i lies in row RowOf(i), column
\* ColOf(i). A blob's polygon is modelled by the set of cells it is traced
\* around: the polygon is the union of the closed unit squares of its cells.
BCells == 1..(Rows * Cols)
RowOf(i) == (i - 1) \div Cols
ColOf(i) == (i - 1) % Cols
Abs(x) == IF x < 0 THEN -x ELSE x
Min(S) == CHOOSE x \in S : \A y \in S : x <= y
Max(S) == CHOOSE x \in S : \A y \in S : y <= x

\* cells that share an edge or a corner
Adjacent8(i, j) ==
    /\ i # j
    /\ Abs(RowOf(i) - RowOf(j)) <= 1 /\ Abs(ColOf(i) - ColOf(j)) <= 1

\* cells that share an edge (the default structuring element of
\* scipy.ndimage.label and the default connectivity of rasterio shapes)
Adjacent4(i, j) == Abs(RowOf(i) - RowOf(j)) + Abs(ColOf(i) - ColOf(j)) = 1

RECURSIVE Flood(_, _)
Flood(S, R) ==
    LET R2 == R \cup {j \in S : \E i \in R : Adjacent4(i, j)}
    IN IF R2 = R THEN R ELSE Flood(S, R2)

\* an array as numpy holds it: every element computed and stored
ndarray(f) == f \o <<>>

\* array > 0
greater_than_0(arr) == ndarray([i \in DOMAIN arr |-> arr[i] > 0])

\* the maximal edge-connected regions of a set of cells
components(S) == {Flood(S, {i}) : i \in S}

\* disjoint regions, whose first cells lie in lo..hi, ordered by first cell
RECURSIVE by_first_cell(_, _, _)
by_first_cell(regions, lo, hi) ==
    IF regions = {} THEN <<>>
    ELSE IF lo = hi THEN <<CHOOSE r \in regions : TRUE>>
    ELSE LET mid == (lo + hi) \div 2
         IN by_first_cell({r \in regions : Min(r) <= mid}, lo, mid)
              \o by_first_cell({r \in regions : Min(r) > mid}, mid + 1, hi)

\* the regions in the order shapes() yields them: GDAL's polygonizer numbers
\* the regions in scan order of their first cell and writes them out in that
\* order
in_scan_order(regions) ==
    IF regions = {} THEN <<>>
    ELSE LET firsts == {Min(r) : r \in regions}
         IN by_first_cell(regions, Min(firsts), Max(firsts))

\* scipy.ndimage.label: the regions numbered 1, 2, .. in scan order of their
\* first cell; 0 outside
label(boolmask) ==
    LET regions == in_scan_order(
                     components({i \in DOMAIN boolmask : boolmask[i]}))
    IN ndarray([i \in DOMAIN boolmask |->
                  IF boolmask[i]
                  THEN CHOOSE n \in DOMAIN regions : i \in regions[n]
                  ELSE 0])

\* labeled_array.astype(np.uint8)
astype_uint8(labeled) ==
    ndarray([i \in DOMAIN labeled |-> labeled[i] % 256])

\* rasterio.features.shapes(values, mask=mask): one shape per connected
\* region of equal value among the cells of the mask
shapes(values, mask) ==
    {Flood({j \in DOMAIN mask : mask[j] /\ values[j] = values[i]}, {i}) :
        i \in {k \in DOMAIN mask : mask[k]}}

\* the mask taken from the labels after the cast
extract_shapes_mask_after_cast(arr) ==
    LET labeled_array == label(greater_than_0(arr))
    IN in_scan_order(shapes(astype_uint8(labeled_array),
                            greater_than_0(astype_uint8(labeled_array))))

\* the shapes of the labelled regions of array > 0
extract_shapes(arr) ==
    LET labeled_array == label(greater_than_0(arr))
    IN in_scan_order(shapes(astype_uint8(labeled_array),
                            greater_than_0(labeled_array)))

\* geom.bounds, in cell-corner coordinates
bounds(geom) ==
    [minx |-> Min({ColOf(i) : i \in geom}),
     miny |-> Min({RowOf(i) : i \in geom}),
     maxx |-> Max({ColOf(i) : i \in geom}) + 1,
     maxy |-> Max({RowOf(i) : i \in geom}) + 1]

\* the test of rtree's intersection query: closed boxes that share a point
boxes_intersect(a, b) ==
    /\ a.minx <= b.maxx /\ b.minx <= a.maxx
    /\ a.miny <= b.maxy /\ b.miny <= a.maxy

\* rtree_index.intersection(box): the entries of the index, in the order the
\* index iterates them, whose box intersects the query box
rtree_intersection(order, highest, box) ==
    SelectSeq(order,
              LAMBDA idx : boxes_intersect(bounds(highest[idx].geometry), box))

\* shapely intersects: the closed polygons share a point (a corner is enough)
intersects(f, h) ==
    \E i \in f, j \in h :
        Abs(RowOf(i) - RowOf(j)) <= 1 /\ Abs(ColOf(i) - ColOf(j)) <= 1

\* shapely within
within(f, h) == f \subseteq h

\* the candidates all tried, the last one that satisfies the relation kept
RECURSIVE match_loop_without_break(_, _, _)
match_loop_without_break(fb, highest, matches) ==
    IF matches = <<>> THEN fb
    ELSE LET hb == highest[Head(matches)]
             rest == match_loop_without_break(fb, highest, Tail(matches))
         IN IF rest.parcel_id # fb.parcel_id THEN rest
            ELSE IF intersects(fb.geometry, hb.geometry)
                      \/ within(fb.geometry, hb.geometry)
                 THEN [fb EXCEPT !.parcel_id = hb.parcel_id]
                 ELSE fb

\* the matched blob also taking the geometry of the highest blob
RECURSIVE match_loop_takes_geometry(_, _, _)
match_loop_takes_geometry(fb, highest, matches) ==
    IF matches = <<>> THEN fb
    ELSE LET hb == highest[Head(matches)]
         IN IF intersects(fb.geometry, hb.geometry)
                 \/ within(fb.geometry, hb.geometry)
            THEN hb
            ELSE match_loop_takes_geometry(fb, highest, Tail(matches))

\* for match_idx in possible_matches: ... break
RECURSIVE match_loop(_, _, _)
match_loop(fb, highest, matches) ==
    IF matches = <<>> THEN fb
    ELSE LET hb == highest[Head(matches)]
         IN IF intersects(fb.geometry, hb.geometry)
                 \/ within(fb.geometry, hb.geometry)
            THEN [fb EXCEPT !.parcel_id = hb.parcel_id]
            ELSE match_loop(fb, highest, Tail(matches))

\* the 8-character tokens uuid4 can give
Tokens == {"1f0c", "9ab2", "e47d"}

\* the orders in which the elements of S can be listed
Perms(S) ==
    {f \in [1..Cardinality(S) -> S] : \A i, j \in DOMAIN f : f[i] = f[j] => i = j}

\* [{"geometry": .., "parcel_id": str(uuid.uuid4())[:8]} for geom, value in ..]
blob_list(geoms, ids) ==
    [k \in DOMAIN geoms |-> [geometry |-> geoms[k], parcel_id |-> ids[k]]]

HeightArrays == [BCells -> {0, 1}]

\* extract_shapes, tabulated over the arrays of Rows rows
extracted_shapes == [arr \in HeightArrays |-> extract_shapes(arr)]
shapes_of(arr) ==
    IF arr \in HeightArrays THEN extracted_shapes[arr] ELSE extract_shapes(arr)

\* the identifiers a caller passes to remove_* and retrieve_*
Identifications == {"a", "1f0c"}
no_calls ==
    [m \in {"remove_buildings", "retrieve_buildings",
             "remove_user_buildings", "retrieve_user_buildings"} |->
        [x \in Identifications |-> 0]]

BuildingsIdle ==
    /\ highest_array = [i \in BCells |-> 0]
    /\ footprint_array = None
    /\ building_geometries = <<>>
    /\ removed_buildings = <<>> /\ removed_user_buildings = <<>>
    /\ user_buildings = <<>> /\ user_buildings_higher = <<>>
    /\ is3D = FALSE
    /\ extracted_highest = <<>> /\ extracted_footprint = <<>>
    /\ possible_matches = <<>>
    /\ inserts = 0
    /\ value_error = FALSE
    /\ calls = no_calls

LandCoverIdle ==
    /\ dtm = [c \in Cells |-> 0]
    /\ main_roadtype = 0
    /\ terrein_vlak = <<>> /\ wegdeel_vlak = <<>> /\ waterdeel_vlak = <<>>
    /\ building_data = <<>>
    /\ constructed = FALSE
    /\ main_road = 0
    /\ terrains = <<>> /\ roads = <<>> /\ water = <<>> /\ buildings = <<>>
    /\ water_mask = None /\ building_mask = None
    /\ heap = <<>> /\ array = 0 /\ og_landcover = 0
    /\ landcover_withoutbuild = None
    /\ last_op = "none"
    /\ status_code = all_ok
    /\ init_raised = FALSE

\* Buildings.__init__ has run
InitB == LandCoverIdle /\ BuildingsIdle

\* the matching loop over footprint_buildings; the dictionaries of
\* highest_buildings are only read
match_all(footprint_buildings, highest_buildings, matches) ==
    [footprint_buildings |->
        [k \in DOMAIN footprint_buildings |->
            match_loop(footprint_buildings[k], highest_buildings, matches[k])],
     highest_buildings |-> highest_buildings]

\* Buildings.insert_user_buildings(highest_array, transform, footprint_array).
\* `order` is the order in which the index iterates its entries, which is
\* rtree's own: any order is taken. tokens holds what a call of
\* str(uuid.uuid4())[:8] may return. (A local is bound with \E x \in {e}, so
\* that its value is computed once.)
insert_user_buildings_drawing(highest, footprint, tokens) ==
    /\ inserts < MaxInserts
    /\ inserts' = inserts + 1
    /\ highest_array' = highest
    /\ footprint_array' = footprint
    /\ is3D' = (footprint # None)
    /\ removed_user_buildings' = <<>>
    /\ \E hgeoms \in {shapes_of(highest)} :
        \E hids \in [DOMAIN hgeoms -> tokens] :
         \E highest_buildings \in {blob_list(hgeoms, hids)} :
           /\ extracted_highest' = highest_buildings
           /\ IF footprint # None
              THEN \E fgeoms \in {shapes_of(footprint)} :
                    \E order \in Perms(DOMAIN hgeoms) :
                     \E fids \in [DOMAIN fgeoms -> tokens] :
                      \E footprint_buildings \in {blob_list(fgeoms, fids)} :
                       \E pm \in {[k \in DOMAIN fgeoms |->
                                     rtree_intersection(order, highest_buildings,
                                                        bounds(fgeoms[k]))]} :
                        \E matched \in {match_all(footprint_buildings,
                                                  highest_buildings, pm)} :
                          /\ extracted_footprint' = footprint_buildings
                          /\ possible_matches' = pm
                          /\ user_buildings' = matched.footprint_buildings
                          /\ user_buildings_higher' = matched.highest_buildings
              ELSE /\ extracted_footprint' = <<>>
                   /\ possible_matches' = <<>>
                   /\ user_buildings' = highest_buildings
                   /\ user_buildings_higher' = <<>>
    /\ value_error' = FALSE
    /\ UNCHANGED <<building_geometries, removed_buildings, calls, lcvars>>

insert_user_buildings(highest, footprint) ==
    insert_user_buildings_drawing(highest, footprint, Tokens)

\* a caller's insert_user_buildings call, with the arrays it passes
insert_call ==
    /\ inserts < MaxInserts
    /\ \E highest \in HeightArrays, footprint \in HeightArrays \cup {None} :
          insert_user_buildings(highest, footprint)

NextB == insert_call

SpecB == InitB /\ [][NextB]_vars

\* ------------------------------------------------ the lists of removed ids
\* every occurrence taken out
list_remove_all(s, x) == SelectSeq(s, LAMBDA e : e # x)

\* list.remove(x), for x in the list: the first occurrence is taken out
list_remove(s, x) == RemoveAt(s, Min({k \in DOMAIN s : s[k] = x}))

\* x in list
contains(s, x) == \E k \in DOMAIN s : s[k] = x

\* what the four methods leave alone, the two lists apart
removal_frame ==
    <<highest_array, footprint_array, building_geometries, user_buildings,
      user_buildings_higher, is3D, extracted_highest, extracted_footprint,
      possible_matches, inserts, lcvars>>

remove_buildings(identification) ==
    /\ removed_buildings' = Append(removed_buildings, identification)
    /\ value_error' = FALSE
    /\ calls' = [calls EXCEPT !["remove_buildings"][identification] = @ + 1]
    /\ UNCHANGED <<removed_user_buildings, removal_frame>>

retrieve_buildings(identification) ==
    /\ IF contains(removed_buildings, identification)
       THEN /\ removed_buildings' =
                 list_remove(removed_buildings, identification)
            /\ value_error' = FALSE
            /\ calls' = [calls EXCEPT
                           !["retrieve_buildings"][identification] = @ + 1]
       ELSE /\ value_error' = TRUE
            /\ UNCHANGED <<removed_buildings, calls>>
    /\ UNCHANGED <<removed_user_buildings, removal_frame>>

remove_user_buildings(identification) ==
    /\ removed_user_buildings' =
         Append(removed_user_buildings, identification)
    /\ value_error' = FALSE
    /\ calls' = [calls EXCEPT
                   !["remove_user_buildings"][identification] = @ + 1]
    /\ UNCHANGED <<removed_buildings, removal_frame>>

retrieve_user_buildings(identification) ==
    /\ IF contains(removed_user_buildings, identification)
       THEN /\ removed_user_buildings' =
                 list_remove(removed_user_buildings, identification)
            /\ value_error' = FALSE
            /\ calls' = [calls EXCEPT
                           !["retrieve_user_buildings"][identification] = @ + 1]
       ELSE /\ value_error' = TRUE
            /\ UNCHANGED <<removed_user_buildings, calls>>
    /\ UNCHANGED <<removed_buildings, removal_frame>>

\* a caller removes an identifier from a layer MaxRemoves times at most
MaxRemoves == 2

\* Buildings.__init__ has loaded one building, and insert_user_buildings has
\* been called once, on an array with one positive cell and no footprint array
InitRemove ==
    /\ LandCoverIdle
    /\ highest_array = [i \in BCells |-> IF i = 1 THEN 1 ELSE 0]
    /\ footprint_array = None
    /\ building_geometries = <<[geometry |-> {1}, parcel_id |-> "a"]>>
    /\ removed_buildings = <<>> /\ removed_user_buildings = <<>>
    /\ \E t \in Tokens :
         /\ user_buildings = <<[geometry |-> {1}, parcel_id |-> t]>>
         /\ extracted_highest = user_buildings
    /\ user_buildings_higher = <<>>
    /\ is3D = FALSE
    /\ extracted_footprint = <<>>
    /\ possible_matches = <<>>
    /\ inserts = 1
    /\ value_error = FALSE
    /\ calls = no_calls

NextRemove ==
    \/ \E x \in Identifications :
          calls["remove_buildings"][x] < MaxRemoves /\ remove_buildings(x)
    \/ \E x \in Identifications : retrieve_buildings(x)
    \/ \E x \in Identifications :
          calls["remove_user_buildings"][x] < MaxRemoves
            /\ remove_user_buildings(x)
    \/ \E x \in Identifications : retrieve_user_buildings(x)

SpecRemove == InitRemove /\ [][NextRemove]_vars

\* ------------------------------------------- arrays of more than 255 regions
\* WrapRows rows of single-cell regions (a checkerboard, three regions on two
\* rows when Cols = 3), then Rows rows of any content
WrapRows == 170
checkerboard(phase) ==
    [i \in 1..(WrapRows * Cols) |-> (RowOf(i) + ColOf(i) + phase) % 2]
TallArrays ==
    {checkerboard(phase) \o tail : phase \in {0, 1}, tail \in HeightArrays}

\* a caller's insert_user_buildings call on a tall array, without footprint
\* array. The uuid4 draws are taken all equal: the tokens of Tokens cannot
\* tell this many blobs apart, and no identifier enters a geometry.
insert_tall_call ==
    /\ inserts < MaxInserts
    /\ \E highest \in TallArrays, t \in Tokens :
          insert_user_buildings_drawing(highest, None, {t})

NextWrap == insert_tall_call

SpecWrap == InitB /\ [][NextWrap]_vars

\* --------------------------------------------------------------- the inputs
TerrainApi == [geometry : Geoms, typelandgebruik : TerrainTypes]
RoadApi == [geometry : Geoms, verhardingstype : RoadTypes]
WaterApi == [geometry : Geoms, hoogteniveau : {0, -1}]
BuildingIn == [geometry : Geoms, parcel_id : {"b"}]

\* two DTM bands: all zero, and cell c holding 10 + c
DtmBands == {[c \in Cells |-> 0], [c \in Cells |-> 10 + c]}
MainRoadTypes == {0, 9}

LandTypes == {8, 9}
InputArrays ==
    [dtype : {"int"}, data : [Cells -> {-1, 0}]]
      \cup [dtype : {"bool"}, data : [Cells -> BOOLEAN]]

InitLC ==
    /\ dtm \in DtmBands
    /\ main_roadtype \in MainRoadTypes
    /\ \E nt \in 0..MaxFeatures :
         \E nr \in 0..(MaxFeatures - nt) :
           \E nw \in 0..(MaxFeatures - nt - nr) :
             \E nb \in 0..(MaxFeatures - nt - nr - nw) :
                /\ terrein_vlak \in SeqsOfLen(TerrainApi, nt)
                /\ wegdeel_vlak \in SeqsOfLen(RoadApi, nr)
                /\ waterdeel_vlak \in SeqsOfLen(WaterApi, nw)
                /\ building_data \in SeqsOfLen(BuildingIn, nb)
    /\ constructed = FALSE
    /\ main_road = 0
    /\ terrains = <<>> /\ roads = <<>> /\ water = <<>> /\ buildings = <<>>
    /\ water_mask = None /\ building_mask = None
    /\ heap = <<>> /\ array = 0 /\ og_landcover = 0
    /\ landcover_withoutbuild = None
    /\ last_op = "none"
    /\ status_code = all_ok
    /\ init_raised = FALSE
    /\ BuildingsIdle

\* ------------------------------------------------------------ LandCover ops
\* LandCover.__init__ with get_features and convert_to_raster
LandCoverInit ==
    /\ ~constructed /\ ~init_raised
    /\ LET terreindata == get_top10nl(terrein_vlak, status_code["terrein_vlak"])
           wegdata == get_top10nl(wegdeel_vlak, status_code["wegdeel_vlak"])
           waterdata == get_top10nl(waterdeel_vlak, status_code["waterdeel_vlak"])
       IN IF \/ any_shape_raises(terreindata.features)
             \/ any_shape_raises(wegdata.features)
             \/ any_shape_raises(waterdata.features)
             \/ any_shape_raises(load_buildings(building_data))
          THEN \* nothing catches it: no object is returned
               /\ init_raised' = TRUE
               /\ UNCHANGED <<constructed, main_road, terrains, roads, water,
                              buildings, water_mask, building_mask, heap,
                              array, og_landcover, landcover_withoutbuild,
                              last_op>>
          ELSE LET ters == process_terrain_features(terreindata.features)
                   rds == process_road_features(wegdata.features, main_roadtype)
                   wat == process_water_features(waterdata.features)
                   blds == load_buildings(building_data)
                   res == convert_to_raster(dtm, ters, rds, wat, blds)
               IN /\ main_road' = main_roadtype
                  /\ terrains' = ters
                  /\ roads' = rds
                  /\ water' = wat
                  /\ buildings' = blds
                  /\ water_mask' = res.water_mask
                  /\ building_mask' = res.building_mask
                  /\ heap' = <<res.array>>
                  /\ array' = 1
                  /\ og_landcover' = 1
                  /\ landcover_withoutbuild' = None
                  /\ constructed' = TRUE
                  /\ last_op' = "init"
                  /\ init_raised' = FALSE
    /\ UNCHANGED <<dtm, main_roadtype, terrein_vlak, wegdeel_vlak,
                   waterdeel_vlak, building_data, status_code, bvars>>

\* self.array = np.where(...): array now refers to a new object; the object
\* og_landcover refers to is kept, the one nothing refers to is dropped
update_build_landcover(new_building_data) ==
    /\ constructed
    /\ IF new_building_data = <<>>
       THEN UNCHANGED <<heap, array>>
       ELSE /\ heap' = <<heap[og_landcover],
                         np_where(geometry_mask(GeomsOf(new_building_data)),
                                  heap[array], BUILDING)>>
            /\ array' = 2
    /\ og_landcover' = 1
    /\ last_op' = "update_build_landcover"
    /\ UNCHANGED <<dtm, main_roadtype, terrein_vlak, wegdeel_vlak,
                   waterdeel_vlak, building_data, constructed, main_road,
                   terrains, roads, water, buildings, water_mask,
                   building_mask, landcover_withoutbuild, status_code,
                   init_raised, bvars>>

\* input_array > -1, elementwise; a Boolean is compared as 0 or 1
greater_than_minus1(input_array) ==
    [c \in Cells |->
        IF input_array.dtype = "bool"
        THEN (IF input_array.data[c] THEN 1 ELSE 0) > -1
        ELSE input_array.data[c] > -1]

\* self.array[to_update] = land_type: written into the object array refers to
update_landcover(land_type, input_array) ==
    /\ constructed
    /\ LET to_update == greater_than_minus1(input_array)
       IN heap' = [heap EXCEPT ![array] =
                      [c \in Cells |-> IF to_update[c] THEN land_type ELSE @[c]]]
    /\ last_op' = "update_landcover"
    /\ UNCHANGED <<dtm, main_roadtype, terrein_vlak, wegdeel_vlak,
                   waterdeel_vlak, building_data, constructed, main_road,
                   terrains, roads, water, buildings, water_mask,
                   building_mask, array, og_landcover, landcover_withoutbuild,
                   status_code, init_raised, bvars>>

NextLC ==
    \/ LandCoverInit
    \/ \E n \in 0..MaxNewBuildings :
          \E nbd \in SeqsOfLen(BuildingIn, n) : update_build_landcover(nbd)
    \/ \E lt \in LandTypes, ia \in InputArrays : update_landcover(lt, ia)

SpecLC == InitLC /\ [][NextLC]_vars

\* the construction alone: what convert_to_raster returns for each input
NextCompose == LandCoverInit

SpecCompose == InitLC /\ [][NextCompose]_vars

\* the state before LandCover.__init__ has run
LandCoverUnbuilt ==
    /\ constructed = FALSE
    /\ main_road = 0
    /\ terrains = <<>> /\ roads = <<>> /\ water = <<>> /\ buildings = <<>>
    /\ water_mask = None /\ building_mask = None
    /\ heap = <<>> /\ array = 0 /\ og_landcover = 0
    /\ landcover_withoutbuild = None
    /\ last_op = "none"
    /\ init_raised = FALSE

\* the inputs when a geometry dictionary may be one shape() cannot read
AnyGeometry == Geoms \cup {MALFORMED}

InitMalformed ==
    /\ dtm \in DtmBands
    /\ main_roadtype \in MainRoadTypes
    /\ \E nt \in 0..MaxFeatures :
         \E nr \in 0..(MaxFeatures - nt) :
           \E nw \in 0..(MaxFeatures - nt - nr) :
             \E nb \in 0..(MaxFeatures - nt - nr - nw) :
                /\ terrein_vlak \in
                      SeqsOfLen([geometry : AnyGeometry,
                                 typelandgebruik : TerrainTypes], nt)
                /\ wegdeel_vlak \in
                      SeqsOfLen([geometry : AnyGeometry,
                                 verhardingstype : RoadTypes], nr)
                /\ waterdeel_vlak \in
                      SeqsOfLen([geometry : AnyGeometry,
                                 hoogteniveau : {0, -1}], nw)
                /\ building_data \in
                      SeqsOfLen([geometry : AnyGeometry, parcel_id : {"b"}], nb)
    /\ status_code = all_ok
    /\ LandCoverUnbuilt
    /\ BuildingsIdle

SpecMalformed == InitMalformed /\ [][NextCompose]_vars

\* the number of requests that serve a collection to the end
pages(collection) ==
    IF collection = <<>> THEN 1 ELSE (Len(collection) + limit - 1) \div limit

\* the inputs when a page request may fail
InitPaged ==
    /\ dtm \in DtmBands
    /\ main_roadtype \in MainRoadTypes
    /\ \E nt \in 0..MaxFeatures :
         \E nr \in 0..(MaxFeatures - nt) :
           \E nw \in 0..(MaxFeatures - nt - nr) :
             \E nb \in 0..(MaxFeatures - nt - nr - nw) :
                /\ terrein_vlak \in SeqsOfLen(TerrainApi, nt)
                /\ wegdeel_vlak \in SeqsOfLen(RoadApi, nr)
                /\ waterdeel_vlak \in SeqsOfLen(WaterApi, nw)
                /\ building_data \in SeqsOfLen(BuildingIn, nb)
    /\ status_code \in [Collections -> [Requests -> StatusCodes]]
    /\ \A k \in Requests :
         /\ k > pages(terrein_vlak) => status_code["terrein_vlak"][k] = OK
         /\ k > pages(wegdeel_vlak) => status_code["wegdeel_vlak"][k] = OK
         /\ k > pages(waterdeel_vlak) => status_code["waterdeel_vlak"][k] = OK
    /\ LandCoverUnbuilt
    /\ BuildingsIdle

SpecPaged == InitPaged /\ [][NextCompose]_vars

\* ================================================================== claims
\* The raster LandCover.array refers to
Grid == heap[array]

\* the features of a layer that carry a code and cover cell c
CodedCover(feats, c) ==
    {i \in 1..Len(feats) :
        "landuse" \in DOMAIN feats[i].properties /\ c \in feats[i].geometry}
Covered(feats, c) == \E i \in 1..Len(feats) : c \in feats[i].geometry
CodeOf(feats, i) == feats[i].properties["landuse"]
Last(S) == CHOOSE i \in S : \A j \in S : j <= i

\* C1: overwrite law of convert_to_raster. In the grid the constructor got
\* back, a cell a building covers is 2; a cell water covers and no building
\* covers is 7; a cell a coded road covers and neither water nor a building
\* covers holds the code of a road feature covering it; whatever the terrain
\* (and the earlier layers) wrote there.
C1_OverwriteLaw ==
    last_op = "init" =>
      \A c \in Cells :
        /\ Covered(buildings, c) => Grid[c] = BUILDING
        /\ (Covered(water, c) /\ ~Covered(buildings, c)) => Grid[c] = WATER
        /\ (CodedCover(roads, c) # {} /\ ~Covered(water, c)
              /\ ~Covered(buildings, c))
             => Grid[c] \in {CodeOf(roads, i) : i \in CodedCover(roads, c)}

\* a later layer covers a cell that an earlier layer wrote
C1_Witness ==
    /\ last_op = "init"
    /\ \E c \in Cells :
         \/ /\ Covered(buildings, c)
            /\ (Covered(water, c) \/ CodedCover(roads, c) # {}
                  \/ CodedCover(terrains, c) # {})
            /\ Grid[c] = BUILDING
         \/ /\ Covered(water, c) /\ ~Covered(buildings, c)
            /\ (CodedCover(roads, c) # {} \/ CodedCover(terrains, c) # {})
            /\ Grid[c] = WATER

\* C2: a cell that no coded terrain feature, no coded road feature, no water
\* geometry and no building geometry covers is NODATA in the grid the
\* constructor got back, whatever the DTM band held there; and when only one
\* layer has features, its covered cells hold its code.
Uncovered(c) ==
    /\ CodedCover(terrains, c) = {} /\ CodedCover(roads, c) = {}
    /\ ~Covered(water, c) /\ ~Covered(buildings, c)

C2_UncoveredIsNodata ==
    last_op = "init" =>
      \A c \in Cells :
        /\ Uncovered(c) => Grid[c] = NODATA
        /\ (roads = <<>> /\ water = <<>> /\ buildings = <<>>
              /\ CodedCover(terrains, c) # {})
             => Grid[c] = CodeOf(terrains, Last(CodedCover(terrains, c)))
        /\ (terrains = <<>> /\ water = <<>> /\ buildings = <<>>
              /\ CodedCover(roads, c) # {})
             => Grid[c] = CodeOf(roads, Last(CodedCover(roads, c)))
        /\ (terrains = <<>> /\ roads = <<>> /\ buildings = <<>>
              /\ Covered(water, c)) => Grid[c] = WATER
        /\ (terrains = <<>> /\ roads = <<>> /\ water = <<>>
              /\ Covered(buildings, c)) => Grid[c] = BUILDING

\* one layer covers one cell and leaves another, whose DTM value was not NODATA
C2_Witness ==
    /\ last_op = "init"
    /\ \E c, d \in Cells :
         /\ Uncovered(c) /\ dtm[c] # NODATA /\ Grid[c] = NODATA
         /\ ~Uncovered(d) /\ Grid[d] # NODATA

\* C3: within the terrain layer and within the road layer, when two features
\* with different codes cover a cell, the cell holds the code of the later
\* listed one, provided no later layer covers the cell.
C3_LaterFeatureWins ==
    last_op = "init" =>
      \A c \in Cells :
        /\ \A i, j \in CodedCover(terrains, c) :
             (i < j /\ j = Last(CodedCover(terrains, c))
                /\ CodeOf(terrains, i) # CodeOf(terrains, j)
                /\ CodedCover(roads, c) = {} /\ ~Covered(water, c)
                /\ ~Covered(buildings, c))
               => Grid[c] = CodeOf(terrains, j)
        /\ \A i, j \in CodedCover(roads, c) :
             (i < j /\ j = Last(CodedCover(roads, c))
                /\ CodeOf(roads, i) # CodeOf(roads, j)
                /\ ~Covered(water, c) /\ ~Covered(buildings, c))
               => Grid[c] = CodeOf(roads, j)

\* two features of one layer with different codes share a cell
C3_Witness ==
    /\ last_op = "init"
    /\ \E c \in Cells :
         /\ ~Covered(water, c) /\ ~Covered(buildings, c)
         /\ \/ /\ CodedCover(roads, c) = {}
               /\ \E i, j \in CodedCover(terrains, c) :
                    i < j /\ CodeOf(terrains, i) # CodeOf(terrains, j)
                      /\ Grid[c] = CodeOf(terrains, j)
            \/ \E i, j \in CodedCover(roads, c) :
                    i < j /\ CodeOf(roads, i) # CodeOf(roads, j)
                      /\ Grid[c] = CodeOf(roads, j)

\* C4: a terrain or road feature whose type misses the code table is stored
\* without a 'landuse' property and changes no cell: the grid the constructor
\* got back equals the grid composited with that feature left out.
TableMiss(road) ==
    /\ lower(road.verhardingstype) # "verhard"
    /\ lower(road.verhardingstype) \notin DOMAIN landcover_mapping.road

C4_MissChangesNothing ==
    last_op = "init" =>
      /\ \A i \in 1..Len(terrein_vlak) :
           lower(terrein_vlak[i].typelandgebruik)
               \notin DOMAIN landcover_mapping.terrain
             => /\ DOMAIN terrains[i].properties = {}
                /\ Grid = convert_to_raster(dtm,
                              process_terrain_features(RemoveAt(terrein_vlak, i)),
                              roads, water, buildings).array
      /\ \A i \in 1..Len(wegdeel_vlak) :
           TableMiss(wegdeel_vlak[i])
             => /\ DOMAIN roads[i].properties = {}
                /\ Grid = convert_to_raster(dtm, terrains,
                              process_road_features(RemoveAt(wegdeel_vlak, i),
                                                    main_road),
                              water, buildings).array

\* a feature without a code lies over a cell an earlier feature wrote
C4_Witness ==
    /\ last_op = "init"
    /\ \E c \in Cells :
         /\ Grid[c] # NODATA
         /\ \/ \E i \in 1..Len(terrein_vlak) :
                  /\ terrein_vlak[i].typelandgebruik = "overig"
                  /\ c \in terrains[i].geometry
                  /\ \E j \in CodedCover(terrains, c) : j < i
            \/ \E i \in 1..Len(wegdeel_vlak) :
                  /\ wegdeel_vlak[i].verhardingstype = "onbekend"
                  /\ c \in roads[i].geometry
                  /\ (CodedCover(terrains, c) # {}
                        \/ \E j \in CodedCover(roads, c) : j < i)

\* C5: every cell of LandCover.array is one of -9999, 0, .., 8, after
\* construction and after any sequence of updates, for every main_roadtype
\* and every land_type.
ValidCodes == {NODATA} \cup (0..8)

C5_ClosedCodeSet ==
    constructed => \A c \in Cells : Grid[c] \in ValidCodes

\* C6: once constructed, landcover_withoutbuild holds the composite of
\* terrain, road and water, and keeps holding it through the updates.
C6_WithoutBuildRetained ==
    constructed =>
      landcover_withoutbuild =
        rasterize_water(
          rasterize_features(rasterize_features(fill_nodata(dtm), terrains),
                             roads),
          water)

\* C7: og_landcover equals, cell for cell, the grid convert_to_raster returned
\* at construction, after any sequence of updates.
C7_OgLandcoverUnmodified ==
    constructed =>
      heap[og_landcover] =
        convert_to_raster(dtm, terrains, roads, water, buildings).array

\* the candidates of footprint blob k, by position in the list the index
\* returned, whose polygon intersects or contains the blob's polygon
Hits(k) ==
    {n \in DOMAIN possible_matches[k] :
        LET f == extracted_footprint[k].geometry
            h == extracted_highest[possible_matches[k][n]].geometry
        IN intersects(f, h) \/ f \subseteq h}

\* C8: matching is first-match by index order. After a call with a
\* footprint_array, each footprint blob has the parcel_id of the first
\* candidate, in the order the index returned them, whose polygon intersects
\* (or contains) its polygon; a blob with no such candidate keeps the
\* identifier generated for it at extraction.
C8_FirstMatchByIndexOrder ==
    (inserts > 0 /\ is3D) =>
      /\ DOMAIN user_buildings = DOMAIN extracted_footprint
      /\ \A k \in DOMAIN extracted_footprint :
           IF Hits(k) = {}
           THEN user_buildings[k].parcel_id = extracted_footprint[k].parcel_id
           ELSE user_buildings[k].parcel_id =
                  extracted_highest[possible_matches[k][Min(Hits(k))]].parcel_id

\* a footprint blob with two candidates that both satisfy the relation and
\* carry different identifiers, neither of them its own
C8_Witness ==
    /\ inserts > 0 /\ is3D
    /\ \E k \in DOMAIN extracted_footprint :
         \E m, n \in Hits(k) :
            LET idm == extracted_highest[possible_matches[k][m]].parcel_id
                idn == extracted_highest[possible_matches[k][n]].parcel_id
            IN /\ m < n /\ m = Min(Hits(k))
               /\ idm # idn
               /\ idm # extracted_footprint[k].parcel_id
               /\ idn # extracted_footprint[k].parcel_id
               /\ user_buildings[k].parcel_id = idm

\* C9: a footprint blob whose polygon lies wholly inside the polygon of a
\* highest blob has that highest blob's parcel_id after matching, also when
\* other highest blobs touch it.
C9_ContainedAdoptsContainer ==
    (inserts > 0 /\ is3D) =>
      \A k \in DOMAIN extracted_footprint :
        \A h \in DOMAIN extracted_highest :
          extracted_footprint[k].geometry \subseteq extracted_highest[h].geometry
            => user_buildings[k].parcel_id = extracted_highest[h].parcel_id

\* C10: matching changes only the parcel_id of footprint blobs. The blobs of
\* user_buildings are those extracted from footprint_array, in number, order
\* and geometry, and user_buildings_higher is the list extracted from
\* highest_array, geometries and identifiers unchanged.
C10_MatchingOnlyRenames ==
    (inserts > 0 /\ is3D) =>
      /\ Len(user_buildings) = Len(extracted_footprint)
      /\ \A k \in DOMAIN extracted_footprint :
           user_buildings[k].geometry = extracted_footprint[k].geometry
      /\ user_buildings_higher = extracted_highest

\* a footprint blob took the identifier of a highest blob of another shape
C10_Witness ==
    /\ inserts > 0 /\ is3D
    /\ \E k \in DOMAIN extracted_footprint :
         /\ Hits(k) # {}
         /\ user_buildings[k].parcel_id # extracted_footprint[k].parcel_id
         /\ extracted_highest[possible_matches[k][Min(Hits(k))]].geometry
               # extracted_footprint[k].geometry

\* cells i and j share an edge
SharesEdge(i, j) ==
    \/ RowOf(i) = RowOf(j) /\ (ColOf(i) = ColOf(j) + 1 \/ ColOf(j) = ColOf(i) + 1)
    \/ ColOf(i) = ColOf(j) /\ (RowOf(i) = RowOf(j) + 1 \/ RowOf(j) = RowOf(i) + 1)

\* R cannot be split in two parts without an edge between them
EdgeConnected(R) ==
    \A P \in (SUBSET R) \ {{}, R} :
        \E i \in P, j \in R \ P : SharesEdge(i, j)

\* blobs lists, once each, the maximal 4-connected regions of the cells of
\* arr that are > 0
IsExtractionOf(blobs, arr) ==
    LET positive == {i \in DOMAIN arr : arr[i] > 0}
    IN /\ UNION {blobs[k].geometry : k \in DOMAIN blobs} = positive
       /\ \A k \in DOMAIN blobs :
            /\ blobs[k].geometry # {}
            /\ EdgeConnected(blobs[k].geometry)
            /\ \A m \in DOMAIN blobs :
                 m # k =>
                   /\ blobs[k].geometry \cap blobs[m].geometry = {}
                   /\ ~ \E i \in blobs[k].geometry, j \in blobs[m].geometry :
                          SharesEdge(i, j)

\* C11: extraction yields exactly one blob per maximal 4-connected region of
\* cells > 0, covering exactly that region's cells; cells that touch only at
\* a corner are in different blobs; an array without a cell > 0 yields the
\* empty list.
C11_OneBlobPerRegion ==
    inserts > 0 =>
      /\ IsExtractionOf(extracted_highest, highest_array)
      /\ is3D => IsExtractionOf(extracted_footprint, footprint_array)
      /\ (\A i \in DOMAIN highest_array : highest_array[i] <= 0)
           => extracted_highest = <<>>

\* two blobs of one array touch at a corner only, and the other array has no
\* cell > 0 and gave no blob
C11_Witness ==
    /\ inserts > 0 /\ is3D
    /\ \E k, m \in DOMAIN extracted_highest :
         /\ k # m
         /\ \E i \in extracted_highest[k].geometry,
              j \in extracted_highest[m].geometry :
                Abs(RowOf(i) - RowOf(j)) = 1 /\ Abs(ColOf(i) - ColOf(j)) = 1
    /\ \A i \in DOMAIN footprint_array : footprint_array[i] = 0
    /\ extracted_footprint = <<>>

\* C12: the identifiers generated in one insert_user_buildings call are
\* pairwise distinct; so a footprint blob that matched no highest blob ends
\* with a parcel_id that no highest blob and no other footprint blob has, and
\* two blobs of user_buildings share a parcel_id only if both matched the
\* same highest blob.
C12_IdentifiersDistinct ==
    inserts > 0 =>
      /\ \A k, m \in DOMAIN extracted_highest :
           k # m => extracted_highest[k].parcel_id # extracted_highest[m].parcel_id
      /\ \A k, m \in DOMAIN extracted_footprint :
           k # m => extracted_footprint[k].parcel_id
                       # extracted_footprint[m].parcel_id
      /\ \A k \in DOMAIN extracted_footprint, h \in DOMAIN extracted_highest :
           extracted_footprint[k].parcel_id # extracted_highest[h].parcel_id
      /\ is3D =>
           \A k \in DOMAIN user_buildings :
             /\ Hits(k) = {} =>
                  /\ \A h \in DOMAIN user_buildings_higher :
                       user_buildings[k].parcel_id
                          # user_buildings_higher[h].parcel_id
                  /\ \A m \in DOMAIN user_buildings :
                       m # k => user_buildings[m].parcel_id
                                  # user_buildings[k].parcel_id
             /\ \A m \in DOMAIN user_buildings :
                  (m # k /\ user_buildings[m].parcel_id
                              = user_buildings[k].parcel_id)
                    => /\ Hits(k) # {} /\ Hits(m) # {}
                       /\ possible_matches[k][Min(Hits(k))]
                            = possible_matches[m][Min(Hits(m))]

\* the features shape() can read
well_formed(feats) == SelectSeq(feats, LAMBDA f : ~shape_raises(f.geometry))

\* C13: when a feature of a layer has a malformed geometry, the composition
\* does not abort: the constructor returns, and the grid is the one composed
\* from the inputs with the malformed features removed.
C13_FailSoftPerFeature ==
    ((constructed \/ init_raised)
       /\ \/ any_shape_raises(terrein_vlak) \/ any_shape_raises(wegdeel_vlak)
          \/ any_shape_raises(waterdeel_vlak) \/ any_shape_raises(building_data))
    => /\ ~init_raised
       /\ constructed
       /\ Grid = convert_to_raster(
                    dtm,
                    process_terrain_features(well_formed(terrein_vlak)),
                    process_road_features(well_formed(wegdeel_vlak),
                                          main_roadtype),
                    process_water_features(well_formed(waterdeel_vlak)),
                    load_buildings(well_formed(building_data))).array

\* C14: what get_top10nl returned for a collection, and what was composited,
\* is either every feature of the collection or nothing: after a page
\* request that failed, the features of the earlier pages are not kept.
C14_AllOrNothing ==
    constructed =>
      /\ terrains \in {process_terrain_features(terrein_vlak), <<>>}
      /\ roads \in {process_road_features(wegdeel_vlak, main_roadtype), <<>>}
      /\ water \in {process_water_features(waterdeel_vlak), <<>>}
      /\ \E ters \in {terrein_vlak, <<>>}, rds \in {wegdeel_vlak, <<>>},
            wat \in {waterdeel_vlak, <<>>} :
           Grid = convert_to_raster(dtm, process_terrain_features(ters),
                                    process_road_features(rds, main_roadtype),
                                    process_water_features(wat),
                                    buildings).array

\* the cells input_array indicates for update: value > -1 in an integer
\* array, True in a Boolean mask
indicated(input_array) ==
    [c \in Cells |->
        IF input_array.dtype = "bool" THEN input_array.data[c]
        ELSE input_array.data[c] > -1]

\* C15: update_landcover(land_type, input_array) sets the indicated cells of
\* LandCover.array to land_type and leaves every other cell as it was.
C15_UpdateOnlyIndicated ==
    [][\A lt \in LandTypes, ia \in InputArrays :
          update_landcover(lt, ia) =>
            \A c \in Cells :
               heap'[array'][c] = IF indicated(ia)[c] THEN lt ELSE heap[array][c]]_vars

\* the labels scipy gives the regions of array > 0, before the cast
labels_of(arr) == label(greater_than_0(arr))

\* C16: the cast of the labels to uint8 merges, drops and splits no blob: for
\* an array of more than 255 edge-connected regions, insert_user_buildings
\* returns one blob per region, with that region's cells.
C16_CastKeepsBlobs ==
    inserts > 0 =>
      LET regions == components({i \in DOMAIN highest_array :
                                   highest_array[i] > 0})
      IN Cardinality(regions) > 255 =>
           /\ {extracted_highest[k].geometry : k \in DOMAIN extracted_highest}
                = regions
           /\ Len(extracted_highest) = Cardinality(regions)
           /\ user_buildings = extracted_highest

\* an array with a region labelled 256 (cast to 0) and a region labelled 257
\* (cast to 1, the label of the first region) has been vectorised
C16_Witness ==
    /\ inserts > 0
    /\ LET labeled_array == labels_of(highest_array)
       IN \E i, j \in DOMAIN highest_array :
             labeled_array[i] = 256 /\ labeled_array[j] = 257
    /\ C16_CastKeepsBlobs

\* the number of occurrences of x in a list
count(s, x) == Cardinality({k \in DOMAIN s : s[k] = x})

\* C17: the occurrences of x in a removed list number the remove(x) calls
\* less the retrieve(x) calls that returned; a retrieve(x) for an x that is
\* not listed raises and leaves the list as it was; and none of the four
\* calls changes building_geometries, user_buildings or the other list.
C17_RemovedListCounts ==
    /\ [](\A x \in Identifications :
            /\ count(removed_buildings, x)
                 = calls["remove_buildings"][x] - calls["retrieve_buildings"][x]
            /\ count(removed_user_buildings, x)
                 = calls["remove_user_buildings"][x]
                     - calls["retrieve_user_buildings"][x])
    /\ [][/\ building_geometries' = building_geometries
          /\ user_buildings' = user_buildings
          /\ \/ removed_buildings' = removed_buildings
             \/ removed_user_buildings' = removed_user_buildings
          /\ \A x \in Identifications :
               /\ (retrieve_buildings(x) /\ ~contains(removed_buildings, x))
                    => value_error' /\ removed_buildings' = removed_buildings
               /\ (retrieve_user_buildings(x)
                     /\ ~contains(removed_user_buildings, x))
                    => /\ value_error'
                       /\ removed_user_buildings' = removed_user_buildings]_vars

\* a building removed twice and retrieved once is still listed, and a
\* retrieve of an identifier that is not listed has raised
C17_Witness ==
    /\ calls["remove_buildings"]["a"] = 2
    /\ calls["retrieve_buildings"]["a"] = 1
    /\ contains(removed_buildings, "a")
    /\ value_error
    /\ user_buildings # <<>> /\ building_geometries # <<>>

=============================================================================
